---------------------------- MODULE Spec2Model ----------------------------
(***************************************************************************)
(* influx-proxy, package backend: the Proxy of src/backend/proxy.go.       *)
(*                                                                         *)
(* The write path (GetMachines, WriteData), the query admission checks,   *)
(* the three migration workflows (Rebalance, Recovery, Resync) with their  *)
(* workers, their per-measurement Migrate goroutines, the two levels of    *)
(* sync.WaitGroup (circle.WgMigrate, circle.BackendWgMap[url]) and the     *)
(* migration status tables, and Clear with its clearCircle workers.        *)
(***************************************************************************)
EXTENDS Naturals, Integers, Sequences, FiniteSets, Bags, TLC

\* ------------------------------------------------------------------ bounds
MaxWrites == 2          \* WriteData calls in one behaviour
MaxRuns == 1            \* workflow calls (Rebalance / Recovery / Resync) in one behaviour of Spec
MaxRunsBatch == 2       \* workflow calls, one after the other, in one behaviour of SpecBatch
MaxCpusBatch == 2       \* largest migrate_max_cpus of the configurations of SpecBatch
VNodeSize == 2          \* vnode_size of the configuration (replicas per ring member)
MaxLastSeconds == 1     \* largest lastSeconds handed to Resync
MaxRegexes == 2         \* regular expressions in one of the three admission lists
MaxQueryWords == 2      \* words of a query

\* ------------------------------------------------------------ the universe
DefaultMaxCpus == 1     \* proxy.MigrateMaxCpus = 1 of NewProxy
Urls == {"a1", "a2", "b1", "c1"}
DbList == <<"db1", "db2">>                    \* db_list of the configuration
Databases == {"db1", "db2", "dbx"}            \* "dbx" is not in db_list
Measures == {"cpu", "mem"}
NoUrl == ""                                   \* Go's zero string
NilBackend == "nil"                           \* a nil *Backend

\* configurations (the circles of proxy.json, each a list of backend urls)
WriteConfigs ==
  { << <<"a1", "a2">>, <<"b1">> >>,
    << <<"a1">>, <<"b1">>, <<"c1">> >>,
    << <<"a1", "a2">>, << >>, <<"b1">> >>,
    << << >>, << >> >> }

MigrateConfigs ==
  { << <<"a1", "a2">>, <<"b1">> >>,
    << <<"a1", "a2">> >>,
    << <<"a1", "a2">>, << >> >> }

AllConfigs == WriteConfigs \cup MigrateConfigs

Range(s) == {s[i] : i \in DOMAIN s}

VARIABLES
  Circles,          \* proxy.Circles: circleNum (from 0) -> circle.Backends (urls)
  MigrateMaxCpus,   \* proxy.MigrateMaxCpus
  BufferMap,        \* backend.BufferMap: url -> db -> lines enqueued, in order
  nWrites,          \* WriteData calls so far
  lastWrite         \* the last WriteData call: its input, its route, its outcome

writeVars == <<BufferMap, nWrites, lastWrite>>
cfgVars == <<Circles, MigrateMaxCpus>>

CircleNums == 0 .. (Len(Circles) - 1)
Backends(c) == Circles[c + 1]
CircleUrls(c) == Range(Backends(c))

\* ------------------------------------------------------------------- ring
\* stathat.com/c/consistent as initCircle/initBackend fill it: every backend
\* url is added with NumberOfReplicas = VNodeSize virtual nodes; Get(key)
\* returns the member owning the first virtual node whose hash is greater
\* than the key's hash, wrapping to the smallest; it fails on an empty ring.
\* crc32 is stood for by a table of small codes.
Crc32 ==
  [s \in Urls \cup Databases \cup Measures \cup {","} |->
     CASE s = "a1" -> 2 [] s = "a2" -> 5 [] s = "b1" -> 3 [] s = "c1" -> 6
       [] s = "db1" -> 0 [] s = "db2" -> 4 [] s = "dbx" -> 2
       [] s = "cpu" -> 1 [] s = "mem" -> 4 [] s = "," -> 0]

\* key := data.Db + "," + measure, as the list of its three parts
RoutingKey(db, measure) == <<db, ",", measure>>

RECURSIVE HashKey(_)
HashKey(key) ==
  IF key = << >> THEN 0 ELSE Crc32[Head(key)] + HashKey(Tail(key))

VNodeHash(url, idx) == Crc32[url] + 7 * idx

\* circle.Router after initCircle has added the urls of `backends`: hash -> member
\* (consistent.Add: a later member takes a hash an earlier one already holds)
RouterCircle(backends) ==
  [h \in {VNodeHash(backends[j], i) : j \in DOMAIN backends, i \in 0 .. (VNodeSize - 1)} |->
     LET owners == {j \in DOMAIN backends :
                      \E i \in 0 .. (VNodeSize - 1) : VNodeHash(backends[j], i) = h}
         last == CHOOSE j \in owners : \A k \in owners : k <= j
     IN backends[last]]

\* consistent.Get(key) on that ring: [url, err]
ConsistentGet(backends, key) ==
  LET ring == RouterCircle(backends)
      hs == DOMAIN ring
      above == {h \in hs : h > HashKey(key)}
      Min(S) == CHOOSE x \in S : \A y \in S : x <= y
  IN IF hs = {} THEN [url |-> NoUrl, err |-> TRUE]
     ELSE IF above = {} THEN [url |-> ring[Min(hs)], err |-> FALSE]
     ELSE [url |-> ring[Min(above)], err |-> FALSE]

\* The rings are frozen after initCircle: Get is a table over the circles of
\* the configurations and the routing keys.
RouterTable ==
  [backends \in UNION {Range(cfg) : cfg \in AllConfigs} |->
     [key \in {RoutingKey(db, m) : db \in Databases, m \in Measures} |->
        ConsistentGet(backends, key)]]

\* circle.Router.Get(key): [url, err]
RouterGet(c, key) == RouterTable[Backends(c)][key]

\* circle.UrlToBackend[url]: the backend, nil for a url the circle has not
UrlToBackend(c, url) == IF url \in CircleUrls(c) THEN url ELSE NilBackend

\* -------------------------------------------------------- query admission
VARIABLES
  ForbiddenQuery,   \* proxy.ForbiddenQuery: the compiled regular expressions, in order
  ObligatedQuery,   \* proxy.ObligatedQuery
  ClusteredQuery,   \* proxy.ClusteredQuery
  lastQuery         \* the last query checked and what the three checks returned

queryVars == <<ForbiddenQuery, ObligatedQuery, ClusteredQuery, lastQuery>>

\* A query is a sequence of words.  A regular expression is a word, searched
\* anywhere in the query or ("^word") at its start only.
Words == {"drop", "select"}
Regexes == {[word |-> "drop", anchored |-> TRUE], [word |-> "select", anchored |-> FALSE]}

RECURSIVE SeqsUpTo(_, _)
SeqsUpTo(S, n) ==
  IF n = 0 THEN {<< >>}
  ELSE LET shorter == SeqsUpTo(S, n - 1)
       IN shorter \cup {Append(q, x) : q \in shorter, x \in S}

Queries == SeqsUpTo(Words, MaxQueryWords)
RegexLists == SeqsUpTo(Regexes, MaxRegexes)

\* (*regexp.Regexp).MatchString(q): q contains a match of the expression
MatchString(re, q) ==
  IF re.anchored THEN Len(q) > 0 /\ q[1] = re.word
  ELSE \E i \in DOMAIN q : q[i] = re.word

\* for _, r := range regexes { if r.MatchString(q) { return ... } }: the
\* position of the first expression that matches, from position i on; 0 when
\* the loop ends without a match
RECURSIVE FirstMatch(_, _, _)
FirstMatch(regexes, q, i) ==
  IF i > Len(regexes) THEN 0
  ELSE IF MatchString(regexes[i], q) THEN i
  ELSE FirstMatch(regexes, q, i + 1)

CheckMeasurementQuery_ObligatedFirst(q) ==
  IF Len(ObligatedQuery) # 0 /\ FirstMatch(ObligatedQuery, q, 1) # 0 THEN TRUE
  ELSE IF Len(ForbiddenQuery) # 0 /\ FirstMatch(ForbiddenQuery, q, 1) # 0 THEN FALSE
  ELSE Len(ObligatedQuery) = 0

\* proxy.CheckMeasurementQuery(q)
CheckMeasurementQuery(q) ==
  IF Len(ForbiddenQuery) # 0 /\ FirstMatch(ForbiddenQuery, q, 1) # 0 THEN FALSE
  ELSE IF Len(ObligatedQuery) # 0 THEN FirstMatch(ObligatedQuery, q, 1) # 0
  ELSE TRUE

\* proxy.CheckClusterQuery(q)
CheckClusterQuery(q) ==
  IF Len(ClusteredQuery) # 0 THEN FirstMatch(ClusteredQuery, q, 1) # 0
  ELSE TRUE

CheckCreateDatabaseQuery_AnyEntry(q) ==
  IF Len(ClusteredQuery) # 0 THEN FirstMatch(ClusteredQuery, q, 1) # 0
  ELSE FALSE

\* proxy.CheckCreateDatabaseQuery(q)
CheckCreateDatabaseQuery(q) ==
  IF Len(ClusteredQuery) # 0 THEN MatchString(ClusteredQuery[Len(ClusteredQuery)], q)
  ELSE FALSE

NoQuery == [id |-> 0, q |-> << >>, measurement |-> FALSE, cluster |-> FALSE,
            createDatabase |-> FALSE]

\* NewProxy: ForbidQuery, EnsureQuery and ClusterQuery compile their commands
\* into the three lists
InitAdmission(forbidCmds, supportCmds, clusterCmds) ==
  /\ ForbiddenQuery \in forbidCmds
  /\ ObligatedQuery \in supportCmds
  /\ ClusteredQuery \in clusterCmds
  /\ lastQuery = NoQuery

\* the HTTP surface asks the three checks about a query
CheckQuery(q) ==
  /\ lastQuery' = [id |-> 1, q |-> q, measurement |-> CheckMeasurementQuery(q),
                   cluster |-> CheckClusterQuery(q),
                   createDatabase |-> CheckCreateDatabaseQuery(q)]
  /\ UNCHANGED <<ForbiddenQuery, ObligatedQuery, ClusteredQuery, cfgVars, writeVars>>

\* ------------------------------------------------------------- write path
\* A line of the line protocol: its measurement ("" when none can be
\* scanned), its trailing timestamp (-1 when absent), its final newline.
Precisions == {"n", "s"}
Lines ==
  { [measure |-> "cpu", ts |-> 1, nl |-> FALSE], [measure |-> "mem", ts |-> -1, nl |-> TRUE],
    [measure |-> "", ts |-> -1, nl |-> FALSE] }

\* LineToNano(line, precision): the timestamp in nanoseconds
LineToNano(line, precision) ==
  IF line.ts = -1 THEN line
  ELSE [line EXCEPT !.ts = IF precision = "s" THEN line.ts * 1000000000 ELSE line.ts]

ScanKey_AnyToken(line) ==
  [measure |-> IF line.measure = "" THEN "cpu" ELSE line.measure, err |-> FALSE]

\* ScanKey(line): [measure, err]
ScanKey(line) ==
  IF line.measure = "" THEN [measure |-> "", err |-> TRUE]
  ELSE [measure |-> line.measure, err |-> FALSE]

RECURSIVE GetMachinesFrom(_, _)
GetMachinesFrom(c, key) ==
  IF c >= Len(Circles) THEN << >>
  ELSE LET r == RouterGet(c, key)
       IN IF r.err THEN GetMachinesFrom(c + 1, key)
          ELSE <<UrlToBackend(c, r.url)>> \o GetMachinesFrom(c + 1, key)

GetMachines_Break(key) ==
  LET errs == {c \in CircleNums : RouterGet(c, key).err}
  IN IF errs = {} THEN GetMachinesFrom(0, key)
     ELSE SubSeq(GetMachinesFrom(0, key), 1,
                 Cardinality({c \in CircleNums : \A e \in errs : c < e}))

\* proxy.GetMachines(key)
GetMachines(key) == GetMachinesFrom(0, key)

\* backend.BufferMap has a buffer for the databases of db_list only
HasBuffer(db) == db \in Range(DbList)

\* The loop of WriteData over the backends GetMachines returned:
\* WriteDataToBuffer fails at position failIdx (0: never); the first failure
\* ends the call.
LoopReturnsAt_NoReturn(n, failIdx) == n + 1

LoopReturnsAt(n, failIdx) == IF failIdx \in 1 .. n THEN failIdx ELSE n + 1

\* the positions whose WriteDataToBuffer appended the line
Appended(n, failIdx, partial) ==
  {i \in 1 .. n : i < LoopReturnsAt(n, failIdx) \/ (i = failIdx /\ partial)}

WriteData(db, line0, precision, failIdx0, partial0) ==
  LET line1 == LineToNano(line0, precision)
      sk == ScanKey(line1)
      key == RoutingKey(db, sk.measure)
      backends == GetMachines(key)
      n == Len(backends)
      line2 == [line1 EXCEPT !.nl = TRUE]
      \* a database without buffer: nil dereference in the first call
      failIdx == IF HasBuffer(db) THEN failIdx0 ELSE 1
      partial == IF HasBuffer(db) THEN partial0 ELSE FALSE
      got == Appended(n, failIdx, partial)
      id == nWrites + 1
  IN /\ nWrites < MaxWrites
     /\ failIdx0 \in 0 .. Len(Circles)
     /\ partial0 => failIdx0 > 0
     /\ nWrites' = id
     /\ IF sk.err
        THEN /\ BufferMap' = BufferMap
             /\ lastWrite' = [id |-> id, db |-> db, key |-> << >>, line |-> line1,
                              backends |-> << >>, got |-> {},
                              failed |-> 0, log |-> "scan key error"]
        ELSE IF n < 1
        THEN /\ BufferMap' = BufferMap
             /\ lastWrite' = [id |-> id, db |-> db, key |-> key, line |-> line1,
                              backends |-> << >>, got |-> {},
                              failed |-> 0, log |-> "GetMachines length is 0"]
        ELSE /\ BufferMap' =
                  [u \in DOMAIN BufferMap |->
                     IF \E i \in got : backends[i] = u
                     THEN [BufferMap[u] EXCEPT ![db] = Append(@, [id |-> id, line |-> line2])]
                     ELSE BufferMap[u]]
             /\ lastWrite' = [id |-> id, db |-> db, key |-> key, line |-> line2,
                              backends |-> backends, got |-> got,
                              failed |-> IF failIdx \in 1 .. n THEN failIdx ELSE 0,
                              log |-> IF failIdx \in 1 .. n
                                      THEN IF HasBuffer(db) THEN "write data to buffer" ELSE "panic"
                                      ELSE ""]
     /\ UNCHANGED <<cfgVars, queryVars>>


NoWrite == [id |-> 0, db |-> "", key |-> << >>, line |-> [measure |-> "", ts |-> -1, nl |-> FALSE],
            backends |-> << >>, got |-> {}, failed |-> 0, log |-> ""]

NewProxyMaxCpus_Keep(cfg) == cfg

\* NewProxy: migrate_max_cpus 0 becomes 1
NewProxyMaxCpus(cfg) == IF cfg = 0 THEN DefaultMaxCpus ELSE cfg

\* -------------------------------------------------------------- migration
VARIABLES
  Measurements,     \* the catalog of the remote databases: url -> db -> measurements
  IsMigrating,      \* circle.IsMigrating
  WgMigrate,        \* circle.WgMigrate: the counter of the WaitGroup
  BackendWgMap,     \* circle.BackendWgMap[url]: the counter of the WaitGroup
  Status,           \* proxy.Backend{Rebalance,Recovery,Resync}Status[circleNum][url]
  nRuns,            \* workflow calls so far; a call's number names its run
  callsLeft,        \* workflow calls the control plane still makes
  wf,               \* slot -> the goroutine in Rebalance / Recovery / Resync
  workers,          \* slot -> url -> the goroutine in RebalanceBackend / RecoveryBackend / ResyncBackend
  tasks,            \* the goroutines in proxy.Migrate that have not returned
  MigrateCalls,     \* every `go proxy.Migrate(...)` of the runs in the slots, with its arguments (a bag)
  Counted,          \* every measurement their workers counted, as "need" or "not" (a bag)
  Errored,          \* their Migrate calls whose circle.Migrate returned an error
  Dropped           \* every backend.DropMeasurement(db, measure) of their clearCircle workers

migrVars == <<Measurements, IsMigrating, WgMigrate, BackendWgMap, Status, nRuns, callsLeft, wf, workers,
              tasks, MigrateCalls, Counted, Errored, Dropped>>

vars == <<Circles, MigrateMaxCpus, BufferMap, nWrites, lastWrite, ForbiddenQuery, ObligatedQuery,
          ClusteredQuery, lastQuery, Measurements, IsMigrating,
          WgMigrate, BackendWgMap, Status, nRuns, callsLeft, wf, workers, tasks, MigrateCalls, Counted,
          Errored, Dropped>>

\* the goroutines of the workflow calls: of one call at a time, or of two that overlap
OneSlot == {1}
TwoSlots == {1, 2}
Slots == DOMAIN wf
Kinds == {"Rebalance", "Recovery", "Resync"}

\* the catalog the backends report (backend.GetMeasurements queries the remote database)
Catalog ==
  [u \in Urls |->
     [db \in Range(DbList) |->
        CASE u = "a1" /\ db = "db1" -> <<"cpu", "mem">>
          [] u = "a2" /\ db = "db1" -> <<"cpu">>
          [] u = "b1" /\ db = "db1" -> <<"mem">>
          [] OTHER -> << >>]]

\* backend.GetMeasurements(db)
GetMeasurements(url, db) == Measurements[url][db]

\* MigrationInfo{}
ZeroInfo == [CircleNum |-> 0, Database |-> "", Measurement |-> "", BackendMeasureTotal |-> 0,
             BMNeedMigrateCount |-> 0, BMNotMigrateCount |-> 0]

NoRun == [run |-> 0, kind |-> "none", pc |-> "none", circleNum |-> 0, toCircleNum |-> 0, targets |-> {},
          databases |-> << >>, lastSeconds |-> 0, pending |-> {}]
NoWorker == [pc |-> "none", circleNum |-> 0, dbIdx |-> 0, measures |-> << >>, mIdx |-> 0,
             migrateCount |-> 0]

InitProxyIn(configs, maxCpus, calls, slots) ==
  /\ Circles \in configs
  /\ MigrateMaxCpus \in {NewProxyMaxCpus(cfg) : cfg \in maxCpus}
  /\ BufferMap = [u \in Urls |-> [db \in Range(DbList) |-> << >>]]
  /\ nWrites = 0
  /\ lastWrite = NoWrite
  /\ Measurements = Catalog
  /\ IsMigrating = [c \in CircleNums |-> FALSE]
  /\ WgMigrate = [c \in CircleNums |-> 0]
  /\ BackendWgMap = [c \in CircleNums |-> [u \in CircleUrls(c) |-> 0]]
  /\ Status = [k \in Kinds |-> [c \in CircleNums |-> [u \in CircleUrls(c) |-> ZeroInfo]]]
  /\ nRuns = 0
  /\ callsLeft = calls
  /\ wf = [r \in slots |-> NoRun]
  /\ workers = [r \in slots |-> [u \in Urls |-> NoWorker]]
  /\ tasks = {}
  /\ MigrateCalls = EmptyBag
  /\ Counted = EmptyBag
  /\ Errored = {}
  /\ Dropped = {}

\* one workflow call at a time
InitProxy(configs, maxCpus, calls) == InitProxyIn(configs, maxCpus, calls, OneSlot)

\* proxy.ClearMigrateStatus(data): every slot of the table, CircleNum excepted
ClearMigrateStatus(data) ==
  [u \in DOMAIN data |->
     [data[u] EXCEPT !.Database = "", !.Measurement = "", !.BackendMeasureTotal = 0,
                     !.BMNeedMigrateCount = 0, !.BMNotMigrateCount = 0]]

\* if len(databases) == 0 { databases = proxy.DbList }
DefaultDatabases(databases) == IF Len(databases) = 0 THEN DbList ELSE databases

\* The destinations of one measurement of source backend `url`, as the three
\* workers compute them: [skip, need, dsts].
RebalanceTarget_Inverted(c, url, key) ==
  LET g == RouterGet(c, key)
  IN [skip |-> FALSE, need |-> g.url = url, dsts |-> <<UrlToBackend(c, g.url)>>]

RebalanceTarget(c, url, key) ==
  LET g == RouterGet(c, key)            \* on error targetBackendUrl is ""
  IN [skip |-> FALSE, need |-> g.url # url, dsts |-> <<UrlToBackend(c, g.url)>>]

RecoveryTarget_AnyTarget(toC, targets, key) ==
  LET g == RouterGet(toC, key)
  IN IF g.err THEN [skip |-> TRUE, need |-> FALSE, dsts |-> << >>]
     ELSE [skip |-> FALSE, need |-> TRUE, dsts |-> <<UrlToBackend(toC, g.url)>>]

RecoveryTarget(toC, targets, key) ==
  LET g == RouterGet(toC, key)
  IN IF g.err THEN [skip |-> TRUE, need |-> FALSE, dsts |-> << >>]
     ELSE [skip |-> FALSE, need |-> g.url \in targets, dsts |-> <<UrlToBackend(toC, g.url)>>]

RECURSIVE ResyncDstBackends(_, _, _)
ResyncDstBackends(toC, circleNum, key) ==
  IF toC >= Len(Circles) THEN << >>
  ELSE LET g == RouterGet(toC, key)
       IN IF toC # circleNum /\ ~g.err
          THEN <<UrlToBackend(toC, g.url)>> \o ResyncDstBackends(toC + 1, circleNum, key)
          ELSE ResyncDstBackends(toC + 1, circleNum, key)

ResyncTarget_OwnCircleToo(circleNum, key) ==
  LET dsts == ResyncDstBackends(0, Len(Circles), key)
  IN [skip |-> FALSE, need |-> Len(dsts) > 0, dsts |-> dsts]

ResyncTarget(circleNum, key) ==
  LET dsts == ResyncDstBackends(0, circleNum, key)
  IN [skip |-> FALSE, need |-> Len(dsts) > 0, dsts |-> dsts]

Target(r, url, key) ==
  CASE wf[r].kind = "Rebalance" -> RebalanceTarget(wf[r].circleNum, url, key)
    [] wf[r].kind = "Recovery" -> RecoveryTarget(wf[r].toCircleNum, wf[r].targets, key)
    [] wf[r].kind = "Resync" -> ResyncTarget(wf[r].circleNum, key)

\* migrateCount % proxy.MigrateMaxCpus == 0
BatchFull(migrateCount) == migrateCount % MigrateMaxCpus = 0

\* ---- the workflow goroutine
FreeSlot(r) == wf[r].pc \in {"none", "returned"}

\* the control plane calls a workflow when no other one is running ...
Serial(r) == (\A q \in Slots : FreeSlot(q)) /\ (\A q \in Slots : r <= q)
\* ... or whenever it is asked to
Overlapping(r) == r = nRuns + 1

\* the databases a call names: none (the db_list is taken), or some
DatabaseLists == {<< >>, <<"db1", "db2">>}

ForgetRun(bag, run) == [x \in {y \in DOMAIN bag : y.run # run} |-> bag[x]]

\* A call takes slot r: the run that was in it is forgotten.
BeginRun(r) ==
  /\ FreeSlot(r)
  /\ callsLeft > 0
  /\ callsLeft' = callsLeft - 1
  /\ nRuns' = nRuns + 1
  /\ workers' = [workers EXCEPT ![r] = [u \in Urls |-> NoWorker]]
  /\ MigrateCalls' = ForgetRun(MigrateCalls, wf[r].run)
  /\ Counted' = ForgetRun(Counted, wf[r].run)
  /\ Errored' = {t \in Errored : t.run # wf[r].run}
  /\ Dropped' = {d \in Dropped : d.run # wf[r].run}
  /\ UNCHANGED <<cfgVars, queryVars, writeVars, Measurements, WgMigrate, BackendWgMap, Status, tasks>>

\* proxy.AddBackend(circleNum): the backends of circle.UrlToBackend
AddBackend(circleNum) == CircleUrls(circleNum)

\* proxy.DeleteBackend(backendUrls): a new Backend for every url given,
\* whether a circle has it or not
DeleteBackend(backendUrls) == backendUrls

\* Rebalance up to the loop: SetIsMigrating(true)
StartRebalance(r, backends, circleNum, databases) ==
  /\ BeginRun(r)
  /\ wf' = [wf EXCEPT ![r] = [run |-> nRuns + 1, kind |-> "Rebalance", pc |-> "spawn", circleNum |-> circleNum,
                              toCircleNum |-> circleNum, targets |-> {},
                              databases |-> DefaultDatabases(databases), lastSeconds |-> 0,
                              pending |-> backends]]
  /\ IsMigrating' = [IsMigrating EXCEPT ![circleNum] = TRUE]

\* Recovery up to the loop: both circles are set migrating
StartRecovery(r, fromCircleNum, toCircleNum, recoveryBackendUrls, databases) ==
  /\ BeginRun(r)
  /\ wf' = [wf EXCEPT ![r] = [run |-> nRuns + 1, kind |-> "Recovery", pc |-> "spawn", circleNum |-> fromCircleNum,
                              toCircleNum |-> toCircleNum, targets |-> recoveryBackendUrls,
                              databases |-> DefaultDatabases(databases), lastSeconds |-> 0,
                              pending |-> CircleUrls(fromCircleNum)]]
  /\ IsMigrating' = [IsMigrating EXCEPT ![fromCircleNum] = TRUE, ![toCircleNum] = TRUE]

\* Resync up to the inner loop of the first circle
StartResync(r, databases, lastSeconds) ==
  /\ BeginRun(r)
  /\ wf' = [wf EXCEPT ![r] = [run |-> nRuns + 1, kind |-> "Resync", pc |-> "spawn", circleNum |-> 0,
                              toCircleNum |-> 0, targets |-> {},
                              databases |-> DefaultDatabases(databases),
                              lastSeconds |-> lastSeconds, pending |-> CircleUrls(0)]]
  /\ IsMigrating' = [IsMigrating EXCEPT ![0] = TRUE]

\* circle.WgMigrate.Add(1); go proxy.<Kind>Backend(backend, ...)
Spawn(r, url) ==
  /\ wf[r].pc = "spawn"
  /\ url \in wf[r].pending
  /\ wf' = [wf EXCEPT ![r].pending = @ \ {url}]
  /\ WgMigrate' = [WgMigrate EXCEPT ![wf[r].circleNum] = @ + 1]
  /\ workers' = [workers EXCEPT ![r][url] = [NoWorker EXCEPT !.pc = "clear",
                                                             !.circleNum = wf[r].circleNum]]
  /\ UNCHANGED <<cfgVars, queryVars, writeVars, Dropped, nRuns, callsLeft, Measurements, IsMigrating, BackendWgMap, Status,
                 tasks, MigrateCalls, Counted, Errored>>

WgWait_NoWait(counter) == TRUE

\* sync.WaitGroup.Wait() returns when the counter is 0
WgWait(counter) == counter = 0

\* circle.WgMigrate.Wait() has returned: SetIsMigrating(false); Resync goes on
\* with the next circle, Rebalance and Recovery return.
WaitDone(r) ==
  LET c == wf[r].circleNum IN
  /\ wf[r].pc = "spawn"
  /\ wf[r].pending = {}
  /\ WgWait(WgMigrate[c])
  /\ CASE wf[r].kind = "Rebalance" ->
            /\ IsMigrating' = [IsMigrating EXCEPT ![c] = FALSE]
            /\ wf' = [wf EXCEPT ![r].pc = "returned"]
       [] wf[r].kind = "Recovery" ->
            /\ IsMigrating' = [IsMigrating EXCEPT ![wf[r].toCircleNum] = FALSE, ![c] = FALSE]
            /\ wf' = [wf EXCEPT ![r].pc = "returned"]
       [] wf[r].kind = "Resync" ->
            IF c + 1 < Len(Circles)
            THEN /\ IsMigrating' = [IsMigrating EXCEPT ![c] = FALSE, ![c + 1] = TRUE]
                 /\ wf' = [wf EXCEPT ![r].circleNum = c + 1, ![r].pending = CircleUrls(c + 1)]
            ELSE /\ IsMigrating' = [IsMigrating EXCEPT ![c] = FALSE]
                 /\ wf' = [wf EXCEPT ![r].pc = "returned"]
  /\ UNCHANGED <<cfgVars, queryVars, writeVars, Dropped, nRuns, callsLeft, Measurements, WgMigrate, BackendWgMap, Status, workers,
                 tasks, MigrateCalls, Counted, Errored>>

\* ---- the worker goroutine of one source backend
\* table[circleNum][url] of a url the table has not is a nil *MigrationInfo
HasSlot(k, c, url) == url \in DOMAIN Status[k][c]

\* circle.BackendWgMap[url] of a url the map has not is a nil *sync.WaitGroup
HasGate(c, url) == url \in DOMAIN BackendWgMap[c]

\* ClearMigrateStatus(table[circleNum]); table[circleNum][url].CircleNum = circleNum.
\* The assignment through a nil slot is a nil dereference: the goroutine
\* panics, its deferred circle.WgMigrate.Done() runs and the process ends.
WorkerClear(r, url) ==
  LET w == workers[r][url]
      k == wf[r].kind
      c == w.circleNum
  IN /\ w.pc = "clear"
     /\ IF HasSlot(k, c, url)
        THEN /\ Status' = [Status EXCEPT ![k][c] =
                             [ClearMigrateStatus(@) EXCEPT ![url].CircleNum = c]]
             /\ workers' = [workers EXCEPT ![r][url].pc = "db", ![r][url].dbIdx = 1]
             /\ UNCHANGED WgMigrate
        ELSE /\ Status' = [Status EXCEPT ![k][c] = ClearMigrateStatus(@)]
             /\ workers' = [workers EXCEPT ![r][url].pc = "panic"]
             /\ WgMigrate' = [WgMigrate EXCEPT ![c] = @ - 1]
     /\ UNCHANGED <<cfgVars, queryVars, writeVars, Dropped, nRuns, callsLeft, Measurements, IsMigrating,
                    BackendWgMap, wf, tasks, MigrateCalls, Counted, Errored>>

\* the head of `for _, db := range databases`: Database, GetMeasurements,
\* BackendMeasureTotal
WorkerDb(r, url) ==
  LET w == workers[r][url]
      k == wf[r].kind
      c == w.circleNum
      db == wf[r].databases[w.dbIdx]
      measures == GetMeasurements(url, db)
  IN /\ w.pc = "db"
     /\ w.dbIdx <= Len(wf[r].databases)
     /\ Status' = [Status EXCEPT ![k][c][url].Database = db,
                                 ![k][c][url].BackendMeasureTotal = Len(measures)]
     /\ workers' = [workers EXCEPT ![r][url] =
                      IF Len(measures) = 0
                      THEN [w EXCEPT !.dbIdx = @ + 1]
                      ELSE [w EXCEPT !.pc = "measure", !.measures = measures, !.mIdx = 1]]
     /\ UNCHANGED <<cfgVars, queryVars, writeVars, Dropped, nRuns, callsLeft, Measurements, IsMigrating, WgMigrate, BackendWgMap,
                    wf, tasks, MigrateCalls, Counted, Errored>>

\* the worker after the measurement at mIdx: the next measurement, or the next database
NextMeasure(w) ==
  IF w.mIdx < Len(w.measures)
  THEN [w EXCEPT !.pc = "measure", !.mIdx = @ + 1]
  ELSE [w EXCEPT !.pc = "db", !.dbIdx = @ + 1, !.measures = << >>, !.mIdx = 0]

\* the Migrate goroutine a worker starts
MigrateCall(r, c, url, dsts, db, measure) ==
  [run |-> wf[r].run, kind |-> wf[r].kind, circleNum |-> c, src |-> url, dsts |-> dsts, db |-> db,
   measure |-> measure, lastSeconds |-> wf[r].lastSeconds]

CountedAs(r, url, db, measure, as) ==
  [run |-> wf[r].run, src |-> url, db |-> db, measure |-> measure, as |-> as]

\* one turn of `for _, measure := range measures`
WorkerMeasure(r, url) ==
  LET w == workers[r][url]
      k == wf[r].kind
      c == w.circleNum
      db == wf[r].databases[w.dbIdx]
      measure == w.measures[w.mIdx]
      t == Target(r, url, RoutingKey(db, measure))
      count == w.migrateCount + 1
  IN /\ w.pc = "measure"
     /\ IF t.skip
        THEN \* router get error: continue
             /\ Status' = [Status EXCEPT ![k][c][url].Measurement = measure]
             /\ workers' = [workers EXCEPT ![r][url] = NextMeasure(w)]
             /\ UNCHANGED <<BackendWgMap, tasks, MigrateCalls, Counted>>
        ELSE IF t.need
        THEN /\ Status' = [Status EXCEPT ![k][c][url].Measurement = measure,
                                         ![k][c][url].BMNeedMigrateCount = @ + 1]
             /\ BackendWgMap' = [BackendWgMap EXCEPT ![c][url] = @ + 1]
             /\ tasks' = tasks \cup {MigrateCall(r, c, url, t.dsts, db, measure)}
             /\ MigrateCalls' = MigrateCalls (+)
                                  SetToBag({MigrateCall(r, c, url, t.dsts, db, measure)})
             /\ Counted' = Counted (+) SetToBag({CountedAs(r, url, db, measure, "need")})
             /\ workers' = [workers EXCEPT ![r][url] =
                              IF BatchFull(count)
                              THEN [w EXCEPT !.pc = "wait", !.migrateCount = count]
                              ELSE [NextMeasure(w) EXCEPT !.migrateCount = count]]
        ELSE /\ Status' = [Status EXCEPT ![k][c][url].Measurement = measure,
                                         ![k][c][url].BMNotMigrateCount = @ + 1]
             /\ Counted' = Counted (+) SetToBag({CountedAs(r, url, db, measure, "not")})
             /\ workers' = [workers EXCEPT ![r][url] = NextMeasure(w)]
             /\ UNCHANGED <<BackendWgMap, tasks, MigrateCalls>>
     /\ UNCHANGED <<cfgVars, queryVars, writeVars, Dropped, nRuns, callsLeft, Measurements, IsMigrating, WgMigrate, wf, Errored>>

\* circle.BackendWgMap[backend.Url].Wait() returns when the counter is 0
WorkerWait(r, url) ==
  LET w == workers[r][url]
  IN /\ w.pc = "wait"
     /\ WgWait(BackendWgMap[w.circleNum][url])
     /\ workers' = [workers EXCEPT ![r][url] = NextMeasure(w)]
     /\ UNCHANGED <<cfgVars, queryVars, writeVars, Dropped, nRuns, callsLeft, Measurements, IsMigrating, WgMigrate, BackendWgMap,
                    Status, wf, tasks, MigrateCalls, Counted, Errored>>

\* the loops are over: the deferred circle.WgMigrate.Done()
WorkerReturn(r, url) ==
  LET w == workers[r][url]
  IN /\ w.pc = "db"
     /\ w.dbIdx > Len(wf[r].databases)
     /\ WgMigrate' = [WgMigrate EXCEPT ![w.circleNum] = @ - 1]
     /\ workers' = [workers EXCEPT ![r][url] = [NoWorker EXCEPT !.pc = "done",
                                                                !.circleNum = w.circleNum]]
     /\ UNCHANGED <<cfgVars, queryVars, writeVars, Dropped, nRuns, callsLeft, Measurements, IsMigrating, BackendWgMap, Status, wf,
                    tasks, MigrateCalls, Counted, Errored>>

\* ---- proxy.Migrate: circle.Migrate returns; Done() only when it returned no error
MigrateReturn(t, ok) ==
  /\ t \in tasks
  /\ tasks' = tasks \ {t}
  /\ IF ok
     THEN /\ BackendWgMap' = [BackendWgMap EXCEPT ![t.circleNum][t.src] = @ - 1]
          /\ UNCHANGED Errored
     ELSE /\ Errored' = Errored \cup {t}
          /\ UNCHANGED BackendWgMap
  /\ UNCHANGED <<cfgVars, queryVars, writeVars, Dropped, nRuns, callsLeft, Measurements, IsMigrating, WgMigrate, Status, wf,
                 workers, MigrateCalls, Counted>>

\* ---- proxy.Clear and its workers
\* backend.DropMeasurement(db, measure): the measurement leaves the database of the backend
DropMeasurement(url, db, measure) ==
  [Measurements EXCEPT ![url][db] = SelectSeq(@, LAMBDA m : m # measure)]

\* Clear up to the loop
StartClear(r, dbs, circleNum) ==
  /\ BeginRun(r)
  /\ wf' = [wf EXCEPT ![r] = [run |-> nRuns + 1, kind |-> "Clear", pc |-> "clearspawn",
                              circleNum |-> circleNum, toCircleNum |-> circleNum, targets |-> {},
                              databases |-> dbs, lastSeconds |-> 0,
                              pending |-> CircleUrls(circleNum)]]
  /\ UNCHANGED IsMigrating

\* circle.WgMigrate.Add(1); go proxy.clearCircle(circle, backend, dbs)
ClearSpawn(r, url) ==
  /\ wf[r].pc = "clearspawn"
  /\ url \in wf[r].pending
  /\ wf' = [wf EXCEPT ![r].pending = @ \ {url}]
  /\ WgMigrate' = [WgMigrate EXCEPT ![wf[r].circleNum] = @ + 1]
  /\ workers' = [workers EXCEPT ![r][url] = [NoWorker EXCEPT !.pc = "cleardb", !.dbIdx = 1,
                                                             !.circleNum = wf[r].circleNum]]
  /\ UNCHANGED <<cfgVars, queryVars, writeVars, Dropped, nRuns, callsLeft, Measurements, IsMigrating,
                 BackendWgMap, Status, tasks, MigrateCalls, Counted, Errored>>

\* circle.WgMigrate.Wait() has returned: return nil
ClearWaitDone(r) ==
  /\ wf[r].pc = "clearspawn"
  /\ wf[r].pending = {}
  /\ WgWait(WgMigrate[wf[r].circleNum])
  /\ wf' = [wf EXCEPT ![r].pc = "returned"]
  /\ UNCHANGED <<cfgVars, queryVars, writeVars, Dropped, nRuns, callsLeft, Measurements, IsMigrating,
                 WgMigrate, BackendWgMap, Status, workers, tasks, MigrateCalls, Counted, Errored>>

\* the head of `for _, db := range dbs`: GetMeasurements
ClearDb(r, url) ==
  LET w == workers[r][url]
      db == wf[r].databases[w.dbIdx]
      measures == GetMeasurements(url, db)
  IN /\ w.pc = "cleardb"
     /\ w.dbIdx <= Len(wf[r].databases)
     /\ workers' = [workers EXCEPT ![r][url] =
                      IF Len(measures) = 0
                      THEN [w EXCEPT !.dbIdx = @ + 1]
                      ELSE [w EXCEPT !.pc = "clearmeasure", !.measures = measures, !.mIdx = 1]]
     /\ UNCHANGED <<cfgVars, queryVars, writeVars, Dropped, nRuns, callsLeft, Measurements, IsMigrating,
                    WgMigrate, BackendWgMap, Status, wf, tasks, MigrateCalls, Counted, Errored>>

\* the clearCircle worker after the measurement at mIdx
ClearNextMeasure(w) ==
  IF w.mIdx < Len(w.measures)
  THEN [w EXCEPT !.mIdx = @ + 1]
  ELSE [w EXCEPT !.pc = "cleardb", !.dbIdx = @ + 1, !.measures = << >>, !.mIdx = 0]

ClearTarget_OwnerToo(c, url, key) ==
  LET g == RouterGet(c, key)
  IN [skip |-> g.err, drop |-> TRUE]

\* what clearCircle decides for one measurement of backend `url`: [skip, drop]
ClearTarget(c, url, key) ==
  LET g == RouterGet(c, key)
  IN [skip |-> g.err, drop |-> g.url # url]

DropCall(r, url, db, measure, ok) ==
  [run |-> wf[r].run, src |-> url, db |-> db, measure |-> measure, ok |-> ok]

\* one turn of `for _, measure := range measures`; DropMeasurement succeeds or not
ClearMeasure(r, url, ok) ==
  LET w == workers[r][url]
      db == wf[r].databases[w.dbIdx]
      measure == w.measures[w.mIdx]
      t == ClearTarget(w.circleNum, url, RoutingKey(db, measure))
  IN /\ w.pc = "clearmeasure"
     /\ workers' = [workers EXCEPT ![r][url] = ClearNextMeasure(w)]
     /\ IF ~t.skip /\ t.drop
        THEN /\ Dropped' = Dropped \cup {DropCall(r, url, db, measure, ok)}
             /\ Measurements' = IF ok THEN DropMeasurement(url, db, measure) ELSE Measurements
        ELSE /\ ok
             /\ UNCHANGED <<Dropped, Measurements>>
     /\ UNCHANGED <<cfgVars, queryVars, writeVars, nRuns, callsLeft, IsMigrating, WgMigrate,
                    BackendWgMap, Status, wf, tasks, MigrateCalls, Counted, Errored>>

\* the loops are over: the deferred circle.WgMigrate.Done()
ClearReturn(r, url) ==
  LET w == workers[r][url]
  IN /\ w.pc = "cleardb"
     /\ w.dbIdx > Len(wf[r].databases)
     /\ WgMigrate' = [WgMigrate EXCEPT ![w.circleNum] = @ - 1]
     /\ workers' = [workers EXCEPT ![r][url] = [NoWorker EXCEPT !.pc = "done",
                                                                !.circleNum = w.circleNum]]
     /\ UNCHANGED <<cfgVars, queryVars, writeVars, Dropped, nRuns, callsLeft, Measurements, IsMigrating,
                    BackendWgMap, Status, wf, tasks, MigrateCalls, Counted, Errored>>

\* ---------------------------------------------------------- specifications
\* the admission lists of the specifications that check no query
NoCmds == {<< >>}

InitWrite == InitProxy(WriteConfigs, {1}, 0) /\ InitAdmission(NoCmds, NoCmds, NoCmds)

WriteDataCall ==
  /\ \E db \in Databases, line \in Lines, precision \in Precisions,
        failIdx \in 0 .. 3, partial \in BOOLEAN :
       \* the precision is not looked at for a line without a timestamp
       /\ line.ts = -1 => precision = "n"
       /\ WriteData(db, line, precision, failIdx, partial)
  /\ UNCHANGED migrVars

InitQuery ==
  /\ InitProxy({<< <<"a1", "a2">>, <<"b1">> >>}, {1}, 0)
  /\ InitAdmission(RegexLists, RegexLists, RegexLists)

CheckQueryCall == (\E q \in Queries : CheckQuery(q)) /\ UNCHANGED migrVars

NextQuery == CheckQueryCall
SpecQuery == InitQuery /\ [][NextQuery]_vars

NextWrite == WriteDataCall
SpecWrite == InitWrite /\ [][NextWrite]_vars

Init ==
  /\ InitProxy(MigrateConfigs, {0, DefaultMaxCpus}, MaxRuns)
  /\ InitAdmission(NoCmds, NoCmds, NoCmds)

\* more calls, one after the other has returned, and batches of migrations
InitBatch ==
  /\ InitProxy(MigrateConfigs, 0 .. MaxCpusBatch, MaxRunsBatch)
  /\ InitAdmission(NoCmds, NoCmds, NoCmds)

RebalanceCall ==
  \E r \in Slots, c \in CircleNums, databases \in DatabaseLists :
    Serial(r) /\ StartRebalance(r, AddBackend(c), c, databases)

RecoveryCall ==
  \E r \in Slots, from \in CircleNums, to \in CircleNums, databases \in DatabaseLists :
    \E urls \in SUBSET CircleUrls(to) :
      /\ from # to
      /\ Serial(r)
      /\ StartRecovery(r, from, to, urls, databases)

ResyncCall ==
  \E r \in Slots, databases \in DatabaseLists, lastSeconds \in 1 .. MaxLastSeconds :
    Serial(r) /\ StartResync(r, databases, lastSeconds)

WorkflowStep == \E r \in Slots : (\E url \in Urls : Spawn(r, url)) \/ WaitDone(r)

WorkerStep ==
  \E r \in Slots, url \in Urls :
    \/ WorkerClear(r, url)
    \/ WorkerDb(r, url)
    \/ WorkerMeasure(r, url)
    \/ WorkerWait(r, url)
    \/ WorkerReturn(r, url)

MigrateStep == \E t \in tasks, ok \in BOOLEAN : MigrateReturn(t, ok)

Next ==
  \/ RebalanceCall
  \/ RecoveryCall
  \/ ResyncCall
  \/ WorkflowStep
  \/ WorkerStep
  \/ MigrateStep

Spec == Init /\ [][Next]_vars
SpecBatch == InitBatch /\ [][Next]_vars

\* Rebalance and Clear
ClearCall ==
  \E r \in Slots, c \in CircleNums, dbs \in DatabaseLists : Serial(r) /\ StartClear(r, dbs, c)

ClearStep ==
  \E r \in Slots :
    \/ \E url \in Urls : ClearSpawn(r, url)
    \/ ClearWaitDone(r)
    \/ \E url \in Urls :
         \/ ClearDb(r, url)
         \/ \E ok \in BOOLEAN : ClearMeasure(r, url, ok)
         \/ ClearReturn(r, url)

NextClear ==
  \/ RebalanceCall
  \/ ClearCall
  \/ WorkflowStep
  \/ WorkerStep
  \/ MigrateStep
  \/ ClearStep

SpecClear == Init /\ [][NextClear]_vars
SpecClearBatch == InitBatch /\ [][NextClear]_vars

\* Rebalance with the backends of AddBackend or of DeleteBackend
DeletedUrls == {"a1", "c1"}

RebalanceDeletedCall ==
  \E r \in Slots, c \in CircleNums, urls \in SUBSET DeletedUrls :
    /\ urls # {}
    /\ Serial(r)
    /\ StartRebalance(r, DeleteBackend(urls), c, << >>)

\* an unrecovered panic of a goroutine has ended the process
Panicked == \E r \in Slots, u \in Urls : workers[r][u].pc = "panic"

NextDelete ==
  \/ ~Panicked /\ RebalanceCall
  \/ ~Panicked /\ RebalanceDeletedCall
  \/ ~Panicked /\ WorkflowStep
  \/ ~Panicked /\ WorkerStep
  \/ ~Panicked /\ MigrateStep

SpecDelete == Init /\ [][NextDelete]_vars

\* workflow calls that overlap: a Rebalance, and a Recovery or a Resync that
\* is called at any time after the Rebalance was
InitOverlap ==
  /\ InitProxyIn({<< <<"a1", "a2">>, <<"b1">> >>}, {0, DefaultMaxCpus}, Cardinality(TwoSlots),
                 TwoSlots)
  /\ InitAdmission(NoCmds, NoCmds, NoCmds)

RebalanceOverlapCall ==
  \E r \in Slots, c \in CircleNums :
    nRuns = 0 /\ Overlapping(r) /\ StartRebalance(r, AddBackend(c), c, << >>)

RecoveryOverlapCall ==
  \E r \in Slots, from \in CircleNums, to \in CircleNums :
    /\ from # to
    /\ nRuns > 0
    /\ Overlapping(r)
    /\ StartRecovery(r, from, to, CircleUrls(to), << >>)

ResyncOverlapCall ==
  \E r \in Slots : nRuns > 0 /\ Overlapping(r) /\ StartResync(r, << >>, MaxLastSeconds)

NextOverlap ==
  \/ RebalanceOverlapCall
  \/ RecoveryOverlapCall
  \/ ResyncOverlapCall
  \/ WorkflowStep
  \/ WorkerStep
  \/ MigrateStep

SpecOverlap == InitOverlap /\ [][NextOverlap]_vars

\* ------------------------------------------------------------------ claims
\* how often backend `url` holds the line of WriteData call `id`
Occurrences(url, id) ==
  Cardinality({<<db, i>> \in UNION {{db} \X DOMAIN BufferMap[url][db] : db \in Range(DbList)} :
                 BufferMap[url][db][i].id = id})

CircleHolds(c, id) == \E u \in CircleUrls(c) : Occurrences(u, id) > 0

WellFormedWrite == lastWrite.id > 0 /\ lastWrite.log # "scan key error"

\* the position of circle c in the list GetMachines returns (circles with an
\* empty ring are left out)
MachinePos(c, key) == Cardinality({d \in 0 .. c : ~RouterGet(d, key).err})

\* C1 (as stated): a well-formed write is enqueued exactly once in every
\* circle, at the backend the circle's ring selects for db + "," + measurement,
\* or it is enqueued nowhere.
C1_AllCirclesOrNone ==
  WellFormedWrite =>
    \/ \A c \in CircleNums :
         LET g == RouterGet(c, lastWrite.key)
         IN /\ ~g.err
            /\ \A u \in CircleUrls(c) :
                 Occurrences(u, lastWrite.id) = (IF u = g.url THEN 1 ELSE 0)
    \/ \A c \in CircleNums : ~CircleHolds(c, lastWrite.id)

\* C1 (amended): a well-formed write is enqueued at most once per circle and
\* only at the backend the circle's ring selects for the key; the circles that
\* hold it are, in circle order, the circles with a non-empty ring before the
\* first one whose enqueue fails (the failing one may or may not hold it): all
\* circles with a non-empty ring when no enqueue fails, none when every ring
\* is empty.
C1_RoutedPrefix ==
  WellFormedWrite =>
    \A c \in CircleNums :
      LET g == RouterGet(c, lastWrite.key)
          pos == MachinePos(c, lastWrite.key)
      IN /\ \A u \in CircleUrls(c) :
              /\ Occurrences(u, lastWrite.id) <= 1
              /\ Occurrences(u, lastWrite.id) = 1 => ~g.err /\ u = g.url
         /\ g.err => ~CircleHolds(c, lastWrite.id)
         /\ ~g.err /\ (lastWrite.failed = 0 \/ pos < lastWrite.failed)
              => Occurrences(g.url, lastWrite.id) = 1
         /\ ~g.err /\ lastWrite.failed > 0 /\ pos > lastWrite.failed
              => ~CircleHolds(c, lastWrite.id)

\* a write that some circle holds and a later circle with a non-empty ring
\* does not, after a failed enqueue
C1_Witness ==
  /\ WellFormedWrite
  /\ lastWrite.failed = 2
  /\ Len(lastWrite.backends) = 3
  /\ CircleHolds(0, lastWrite.id)
  /\ ~CircleHolds(2, lastWrite.id)

\* C4 (as stated): when the enqueue at one circle's backend fails, the routed
\* backends of all later circles still receive the write.
C4_LaterCirclesReceive ==
  WellFormedWrite /\ lastWrite.log = "write data to buffer" =>
    \A i \in (lastWrite.failed + 1) .. Len(lastWrite.backends) :
      Occurrences(lastWrite.backends[i], lastWrite.id) = 1

\* the run in slot r, its calls, the measurements of a source of the run
RunCalls(r, url) == {t \in DOMAIN MigrateCalls : t.run = wf[r].run /\ t.src = url}
CallsFor(r, url, db, m) == {t \in RunCalls(r, url) : t.db = db /\ t.measure = m}
Launches(r, url, db, m) ==
  LET S == CallsFor(r, url, db, m)
  IN IF S = {} THEN 0
     ELSE IF Cardinality(S) = 1 THEN CopiesIn(CHOOSE t \in S : TRUE, MigrateCalls)
     ELSE 2
WorkerDone(r, url) == workers[r][url].pc = "done"
WorkerAlive(r, url) == workers[r][url].pc \notin {"none", "done"}
OnBackend(r, url) ==
  {<<db, m>> \in Range(wf[r].databases) \X Measures : m \in Range(GetMeasurements(url, db))}
CountedNot(r, url, db, m) == CopiesIn(CountedAs(r, url, db, m, "not"), Counted)

\* C2 (as stated): a workflow has returned only when every migration task its
\* workers launched has finished.
C2_ReturnedAfterMigrations ==
  \A r \in Slots :
    wf[r].pc = "returned" => \A t \in tasks : t.run # wf[r].run

\* C3 (as stated): after circle.Migrate returned an error for a measurement the
\* workflow does not stall: until it has returned, some goroutine of it can
\* take a step.
C3_NoStallAfterError ==
  \A r \in Slots :
    (wf[r].pc = "spawn" /\ \E t \in Errored : t.run = wf[r].run)
      => ENABLED (WorkflowStep \/ WorkerStep \/ MigrateStep)

\* C5 (as stated): while a workflow runs, at most MigrateMaxCpus migration
\* tasks of one source backend have been launched and have not finished.
C5_AtMostMaxCpusInFlight ==
  \A r \in Slots :
    wf[r].pc = "spawn" =>
      \A u \in Urls : Cardinality({t \in tasks : t.src = u}) <= MigrateMaxCpus

\* C6: the migrating flag of the circle of a run (of both circles, for
\* Recovery) is true from the call until every worker of the run has finished,
\* and no flag is true once the workflow has returned.
C6_MigratingDuringRun ==
  \A r \in Slots :
    /\ wf[r].pc = "spawn" =>
         /\ IsMigrating[wf[r].circleNum]
         /\ wf[r].kind = "Recovery" => IsMigrating[wf[r].toCircleNum]
    /\ \A u \in Urls :
         WorkerAlive(r, u) =>
           /\ wf[r].pc = "spawn"
           /\ IsMigrating[workers[r][u].circleNum]
           /\ wf[r].kind = "Recovery" => IsMigrating[wf[r].toCircleNum]
    /\ (\A q \in Slots : wf[q].pc = "returned") => \A c \in CircleNums : ~IsMigrating[c]

\* a Recovery with one worker finished and one still at work, both flags true
C6_Witness ==
  \E r \in Slots :
    /\ wf[r].kind = "Recovery" /\ wf[r].pending = {}
    /\ WorkerDone(r, "a2") /\ workers[r]["a1"].pc = "wait"
    /\ IsMigrating[0] /\ IsMigrating[1]

\* C7 (as stated): when a pass has returned, the slot of every source backend
\* of the pass has BMNeedMigrateCount + BMNotMigrateCount = BackendMeasureTotal.
C7_CountsAddUp ==
  \A r \in Slots :
    wf[r].pc = "returned" =>
      \A u \in Urls :
        WorkerDone(r, u) =>
          LET info == Status[wf[r].kind][workers[r][u].circleNum][u]
          IN info.BMNeedMigrateCount + info.BMNotMigrateCount = info.BackendMeasureTotal

\* C8: in a Rebalance pass over circle C, a worker launches Migrate at most
\* once per measurement, only for a measurement of its source A that C's ring
\* routes to another url, with that url's backend as the one destination and
\* lastSeconds 0; when the worker has finished, every measurement of A routed
\* elsewhere was launched exactly once and every measurement routed to A was
\* never launched and was counted as not-migrated.
C8_RebalanceLaunches ==
  \A r \in Slots :
    wf[r].kind = "Rebalance" =>
      \A u \in Urls :
        /\ \A t \in RunCalls(r, u) :
             LET g == RouterGet(wf[r].circleNum, RoutingKey(t.db, t.measure))
             IN /\ <<t.db, t.measure>> \in OnBackend(r, u)
                /\ Launches(r, u, t.db, t.measure) = 1
                /\ ~g.err /\ g.url # u
                /\ t.dsts = <<g.url>> /\ g.url \in CircleUrls(wf[r].circleNum)
                /\ t.lastSeconds = 0
        /\ WorkerDone(r, u) =>
             \A p \in OnBackend(r, u) :
               IF RouterGet(wf[r].circleNum, RoutingKey(p[1], p[2])).url # u
               THEN Launches(r, u, p[1], p[2]) = 1
               ELSE Launches(r, u, p[1], p[2]) = 0 /\ CountedNot(r, u, p[1], p[2]) = 1

\* the Rebalance worker of a1 has finished: mem went to a2, cpu stayed
C8_Witness ==
  \E r \in Slots :
    /\ wf[r].kind = "Rebalance" /\ WorkerDone(r, "a1")
    /\ Launches(r, "a1", "db1", "mem") = 1
    /\ CountedNot(r, "a1", "db1", "cpu") = 1

\* C9: in a Recovery pass a worker launches Migrate only for a measurement
\* whose url on toCircle's ring is in the recovery target set, with the
\* toCircle backend of that url as the one destination; when the worker has
\* finished, the measurements of its source that were launched are exactly
\* those, each once.
C9_RecoveryLaunches ==
  \A r \in Slots :
    wf[r].kind = "Recovery" =>
      \A u \in Urls :
        /\ \A t \in RunCalls(r, u) :
             LET g == RouterGet(wf[r].toCircleNum, RoutingKey(t.db, t.measure))
             IN /\ <<t.db, t.measure>> \in OnBackend(r, u)
                /\ Launches(r, u, t.db, t.measure) = 1
                /\ ~g.err /\ g.url \in wf[r].targets
                /\ t.dsts = <<g.url>> /\ g.url \in CircleUrls(wf[r].toCircleNum)
        /\ WorkerDone(r, u) =>
             \A p \in OnBackend(r, u) :
               LET g == RouterGet(wf[r].toCircleNum, RoutingKey(p[1], p[2]))
               IN Launches(r, u, p[1], p[2]) = (IF ~g.err /\ g.url \in wf[r].targets THEN 1 ELSE 0)

\* a finished Recovery worker of circle 0 that migrated both measurements of
\* a1 to the target b1 of circle 1
C9_Witness ==
  \E r \in Slots :
    /\ wf[r].kind = "Recovery" /\ wf[r].targets = {"b1"} /\ WorkerDone(r, "a1")
    /\ Launches(r, "a1", "db1", "cpu") = 1
    /\ Launches(r, "a1", "db1", "mem") = 1
    /\ \A t \in RunCalls(r, "a1") : t.dsts = <<"b1">>

\* the circles other than circleNum, and those of them whose ring is not empty
OtherCircles(circleNum) == CircleNums \ {circleNum}
RoutableOthers(circleNum, key) == {c \in OtherCircles(circleNum) : ~RouterGet(c, key).err}

\* dsts holds exactly the backends the rings of the circles `cs` select for key
ExactlyRouted(dsts, cs, key) ==
  /\ Len(dsts) = Cardinality(cs)
  /\ \A c \in cs :
       /\ ~RouterGet(c, key).err
       /\ Cardinality({i \in DOMAIN dsts : dsts[i] \in CircleUrls(c)}) = 1
       /\ \E i \in DOMAIN dsts : dsts[i] = RouterGet(c, key).url

\* C10 (as stated): when a Resync worker of circle C has finished, every
\* measurement of its backend was launched exactly once, with exactly one
\* destination from every circle other than C (the one that circle's ring
\* selects), none of C, and the given lastSeconds.
C10_OneCallToEveryOtherCircle ==
  \A r \in Slots :
    wf[r].kind = "Resync" =>
      \A u \in Urls :
        WorkerDone(r, u) =>
          \A p \in OnBackend(r, u) :
            /\ Launches(r, u, p[1], p[2]) = 1
            /\ \A t \in CallsFor(r, u, p[1], p[2]) :
                 /\ ExactlyRouted(t.dsts, OtherCircles(workers[r][u].circleNum),
                                  RoutingKey(p[1], p[2]))
                 /\ t.lastSeconds = wf[r].lastSeconds

\* C10 (amended): a Resync worker of circle C launches Migrate at most once per
\* measurement of its backend, with exactly one destination from every other
\* circle whose ring is not empty (the backend that ring selects), none of C,
\* and the given lastSeconds; when the worker has finished, every measurement
\* for which some other circle has a non-empty ring was launched exactly once,
\* and every other measurement was never launched and was counted as
\* not-migrated.
C10_OneCallToRoutableCircles ==
  \A r \in Slots :
    wf[r].kind = "Resync" =>
      \A u \in Urls :
        /\ \A t \in RunCalls(r, u) :
             /\ <<t.db, t.measure>> \in OnBackend(r, u)
             /\ Launches(r, u, t.db, t.measure) = 1
             /\ RoutableOthers(t.circleNum, RoutingKey(t.db, t.measure)) # {}
             /\ ExactlyRouted(t.dsts, RoutableOthers(t.circleNum, RoutingKey(t.db, t.measure)),
                              RoutingKey(t.db, t.measure))
             /\ t.circleNum = workers[r][u].circleNum /\ u \in CircleUrls(t.circleNum)
             /\ t.lastSeconds = wf[r].lastSeconds
        /\ WorkerDone(r, u) =>
             \A p \in OnBackend(r, u) :
               IF RoutableOthers(workers[r][u].circleNum, RoutingKey(p[1], p[2])) # {}
               THEN Launches(r, u, p[1], p[2]) = 1
               ELSE Launches(r, u, p[1], p[2]) = 0 /\ CountedNot(r, u, p[1], p[2]) = 1

\* the Resync worker of a1 has finished: both measurements went to b1 of
\* circle 1 with the given lastSeconds
C10_Witness ==
  \E r \in Slots :
    /\ wf[r].kind = "Resync" /\ WorkerDone(r, "a1") /\ Len(Circles) = 2
    /\ Launches(r, "a1", "db1", "cpu") = 1
    /\ Launches(r, "a1", "db1", "mem") = 1
    /\ \A t \in RunCalls(r, "a1") : t.dsts = <<"b1">> /\ t.lastSeconds = MaxLastSeconds

\* the circles whose ring is not empty: Router.Get(key) succeeds
Routable(key) == {c \in CircleNums : ~RouterGet(c, key).err}

\* C11 (as stated): WriteData rejects a write whose database is not in the
\* db_list: the write is handed to no backend and is enqueued nowhere.
C11_UnknownDbRejected ==
  lastWrite.id > 0 /\ lastWrite.db \notin Range(DbList) =>
    /\ lastWrite.failed = 0
    /\ lastWrite.log # "panic"
    /\ \A u \in Urls : Occurrences(u, lastWrite.id) = 0

\* C12: a circle with an empty ring is left out and nothing else: the backends
\* WriteData goes through are, in circle order, the routed backends of the
\* circles with a non-empty ring; when no enqueue fails each of them holds the
\* write once and no other backend holds it; when every ring is empty the call
\* logs and enqueues nothing.
C12_EmptyRingSkipped ==
  WellFormedWrite /\ HasBuffer(lastWrite.db) =>
    LET key == lastWrite.key IN
    /\ Len(lastWrite.backends) = Cardinality(Routable(key))
    /\ \A c \in Routable(key) : lastWrite.backends[MachinePos(c, key)] = RouterGet(c, key).url
    /\ lastWrite.failed = 0 =>
         \A c \in CircleNums : \A u \in CircleUrls(c) :
           Occurrences(u, lastWrite.id) =
             (IF c \in Routable(key) /\ u = RouterGet(c, key).url THEN 1 ELSE 0)
    /\ Routable(key) = {} =>
         /\ lastWrite.log = "GetMachines length is 0"
         /\ \A u \in Urls : Occurrences(u, lastWrite.id) = 0

\* three circles, the ring of the middle one empty: the first and the last hold the write
C12_Witness ==
  /\ WellFormedWrite /\ HasBuffer(lastWrite.db)
  /\ Len(Circles) = 3
  /\ Routable(lastWrite.key) = {0, 2}
  /\ lastWrite.failed = 0
  /\ CircleHolds(0, lastWrite.id) /\ CircleHolds(2, lastWrite.id)
  /\ ~CircleHolds(1, lastWrite.id)

\* C13: a call of WriteData with a line from which no measurement can be
\* scanned changes no buffer of any backend.
C13_MalformedDropped ==
  [][lastWrite'.id # lastWrite.id /\ lastWrite'.line.measure = "" => BufferMap' = BufferMap]_vars

\* a malformed write after a write that was enqueued
C13_Witness ==
  /\ lastWrite.id = 2
  /\ lastWrite.line.measure = ""
  /\ lastWrite.log = "scan key error"
  /\ \E u \in Urls : Occurrences(u, 1) = 1


\* C14: CheckMeasurementQuery(q) is true if and only if no forbidden
\* expression matches q and the obligated list is empty or one of its
\* expressions matches q.
C14_MeasurementQueryAdmitted ==
  lastQuery.id > 0 =>
    (lastQuery.measurement <=>
       /\ \A i \in DOMAIN ForbiddenQuery : ~MatchString(ForbiddenQuery[i], lastQuery.q)
       /\ \/ ObligatedQuery = << >>
          \/ \E i \in DOMAIN ObligatedQuery : MatchString(ObligatedQuery[i], lastQuery.q))

\* a forbidden and an obligated expression both match: the query is refused
C14_Witness ==
  /\ lastQuery.id > 0
  /\ \E i \in DOMAIN ForbiddenQuery : MatchString(ForbiddenQuery[i], lastQuery.q)
  /\ \E i \in DOMAIN ObligatedQuery : MatchString(ObligatedQuery[i], lastQuery.q)
  /\ ~lastQuery.measurement

\* C15: CheckCreateDatabaseQuery(q) is true if and only if the clustered list
\* has a last entry and that entry matches q.
C15_CreateDatabaseIsLastEntry ==
  lastQuery.id > 0 =>
    (lastQuery.createDatabase <=>
       /\ ClusteredQuery # << >>
       /\ MatchString(ClusteredQuery[Len(ClusteredQuery)], lastQuery.q))

\* another clustered expression matches, the last one does not
C15_Witness ==
  /\ lastQuery.id > 0
  /\ Len(ClusteredQuery) = 2
  /\ MatchString(ClusteredQuery[1], lastQuery.q)
  /\ ~MatchString(ClusteredQuery[2], lastQuery.q)
  /\ lastQuery.cluster
  /\ ~lastQuery.createDatabase


\* the migrations of source backend `url` that have not finished
InFlight(url) == {t \in tasks : t.src = url}

\* C16: a migrate_max_cpus of 0 becomes 1 in NewProxy: MigrateMaxCpus is
\* never 0 (the divisor of the throttle test), and with MigrateMaxCpus = 1 at
\* most one migration of a source backend is in flight: a worker launches
\* the next one only after the previous one has finished.
C16_ZeroMaxCpusIsOne ==
  /\ NewProxyMaxCpus(0) = 1
  /\ MigrateMaxCpus >= 1
  /\ MigrateMaxCpus = 1 => \A u \in Urls : Cardinality(InFlight(u)) <= 1

\* the second migration of a1 is in flight, the first one has finished
C16_Witness ==
  /\ MigrateMaxCpus = 1
  /\ \E r \in Slots :
       /\ Cardinality(RunCalls(r, "a1")) = 2
       /\ workers[r]["a1"].pc = "wait"
       /\ Cardinality(InFlight("a1")) = 1

\* C17 (as stated): during a pass the status slot of a backend is changed
\* only by a step of the worker of that backend.
C17_OnlyOwnerWritesSlot ==
  [][\A k \in Kinds : \A c \in CircleNums : \A u \in CircleUrls(c) :
       Status'[k][c][u] # Status[k][c][u] =>
         \E r \in Slots : wf[r].kind = k /\ workers'[r][u] # workers[r][u]]_vars


\* the DropMeasurement calls of the worker of `url` in the run of slot r
DropsOf(r, url) == {d \in Dropped : d.run = wf[r].run /\ d.src = url}
RoutedElsewhere(c, url, db, m) ==
  LET g == RouterGet(c, RoutingKey(db, m)) IN ~g.err /\ g.url # url

\* C18: a clearCircle worker calls DropMeasurement for a measurement of its
\* backend only when the ring of the circle routes db + "," + measurement to
\* another url (never on the owner, never when routing fails); when the
\* worker has finished, every measurement of the databases of the call that
\* is still on the backend is owned by it or its drop failed; and Clear has
\* returned only when the worker of every backend of the circle has finished.
C18_ClearDropsMisplaced ==
  \A r \in Slots :
    wf[r].kind = "Clear" =>
      LET c == wf[r].circleNum IN
      /\ \A url \in CircleUrls(c) :
           /\ \A d \in DropsOf(r, url) :
                d.db \in Range(wf[r].databases) /\ RoutedElsewhere(c, url, d.db, d.measure)
           /\ WorkerDone(r, url) =>
                \A db \in Range(wf[r].databases) :
                  \A m \in Range(GetMeasurements(url, db)) :
                    RoutedElsewhere(c, url, db, m) =>
                      DropCall(r, url, db, m, FALSE) \in Dropped
      /\ \A d \in Dropped : d.run = wf[r].run => d.src \in CircleUrls(c)
      /\ wf[r].pc = "returned" => \A url \in CircleUrls(c) : WorkerDone(r, url)

\* Clear of circle 0 has returned: mem (routed to a2) is dropped from a1, cpu
\* (routed to a1) is dropped from a2 and stays on a1
C18_Witness ==
  \E r \in Slots :
    /\ wf[r].kind = "Clear" /\ wf[r].pc = "returned" /\ wf[r].circleNum = 0
    /\ DropCall(r, "a1", "db1", "mem", TRUE) \in Dropped
    /\ DropCall(r, "a2", "db1", "cpu", TRUE) \in Dropped
    /\ GetMeasurements("a1", "db1") = <<"cpu">>
    /\ GetMeasurements("a2", "db1") = << >>

\* C19 (as stated): with Clear called only after Rebalance has returned, no
\* DropMeasurement is called for a measurement of a backend while a migration
\* of a Rebalance copying that measurement from that backend is in flight.
C19_NoDropDuringCopy ==
  [][\A d \in Dropped' \ Dropped :
       \A t \in tasks :
         ~(t.kind = "Rebalance" /\ t.src = d.src /\ t.db = d.db /\ t.measure = d.measure)]_vars


\* the circles whose flag the workflow in slot r has set and not yet cleared
FlaggedBy(r) ==
  IF wf[r].kind = "Recovery" THEN {wf[r].circleNum, wf[r].toCircleNum} ELSE {wf[r].circleNum}

\* C20 (as stated): when workflows overlap, the migrating flag of a circle is
\* true in every state in which a workflow on that circle has been called and
\* has not returned.
C20_FlagWhileAnyRuns ==
  \A r \in Slots : wf[r].pc = "spawn" => \A c \in FlaggedBy(r) : IsMigrating[c]


\* C21 (as stated): every source backend a workflow worker was started for
\* has a migration-status slot in the table of the workflow and a gate in
\* BackendWgMap, both of the worker's circle, and no worker dereferences a
\* missing one; the backends of DeleteBackend included.
C21_SourceHasSlotAndGate ==
  \A r \in Slots : \A url \in Urls :
    wf[r].kind \in Kinds /\ workers[r][url].pc # "none" =>
      /\ HasSlot(wf[r].kind, workers[r][url].circleNum, url)
      /\ HasGate(workers[r][url].circleNum, url)
      /\ workers[r][url].pc # "panic"

=============================================================================
